---- MODULE Spec2Model ----
(***************************************************************************)
(* tilt2mqtt.py: the Tilt hydrometer to MQTT bridge.                       *)
(*                                                                         *)
(* The module models the start-up of the script (the calibration table and *)
(* the MQTT settings read from the environment), the callback that decodes *)
(* one advertisement and publishes it, and the scan / sleep loop.          *)
(*                                                                         *)
(* Numbers.  Python computes in double precision and only rounds when it   *)
(* formats.  The model computes the same values exactly, as scaled         *)
(* integers: a temperature in tenths of a degree Fahrenheit, a specific    *)
(* gravity in thousandths.  On this grid the formatted values of the       *)
(* double-precision computation and of the exact one are the same strings  *)
(* (no half-way case is closer to a tie than the floating-point error).    *)
(***************************************************************************)
EXTENDS Integers, Sequences, FiniteSets, TLC

(***************************************************************************)
(* Text: str.format and string concatenation.                              *)
(***************************************************************************)
Digit(d) == <<"0", "1", "2", "3", "4", "5", "6", "7", "8", "9">>[d + 1]

RECURSIVE NatStr(_)
NatStr(n) == IF n < 10 THEN Digit(n) ELSE NatStr(n \div 10) \o Digit(n % 10)

RECURSIVE FracStr(_, _)
\* the `places` low decimal digits of n, zero padded
FracStr(n, places) ==
    IF places = 0 THEN "" ELSE FracStr(n \div 10, places - 1) \o Digit(n % 10)

Abs(x) == IF x < 0 THEN 0 - x ELSE x

\* round(num / den) for num >= 0, den > 0, ties to even
RoundHalfEven(num, den) ==
    LET q == num \div den
        r == num % den
    IN  IF 2 * r > den \/ (2 * r = den /\ q % 2 = 1) THEN q + 1 ELSE q

\* "{:.<places>f}".format(x) where |x| rounds to q / 10^places and neg is x < 0
FormatFixed(neg, q, places) ==
    (IF neg THEN "-" ELSE "")
        \o NatStr(q \div (10 ^ places)) \o "." \o FracStr(q % (10 ^ places), places)

\* "{:d}".format(n)
FormatInt(n) == (IF n < 0 THEN "-" ELSE "") \o NatStr(Abs(n))

(***************************************************************************)
(* Exact arithmetic on large naturals, for the cubic of line 136: a number *)
(* is the sequence of its base-10^5 digits, lowest first.                  *)
(***************************************************************************)
Base == 10 ^ 5

RECURSIVE BigOf(_)
BigOf(n) == IF n = 0 THEN <<>> ELSE <<n % Base>> \o BigOf(n \div Base)

Limb(X, i) == IF i <= Len(X) THEN X[i] ELSE 0

RECURSIVE BigMulCarry(_, _, _)
BigMulCarry(X, k, c) ==
    IF X = <<>> THEN BigOf(c)
    ELSE LET t == Head(X) * k + c
         IN  <<t % Base>> \o BigMulCarry(Tail(X), k, t \div Base)

\* X * k, for 0 <= k <= 21473
BigMul(X, k) == BigMulCarry(X, k, 0)

RECURSIVE BigAddCarry(_, _, _)
BigAddCarry(X, Y, c) ==
    IF X = <<>> /\ Y = <<>> THEN BigOf(c)
    ELSE LET t == Limb(X, 1) + Limb(Y, 1) + c
         IN  <<t % Base>>
                 \o BigAddCarry(IF X = <<>> THEN X ELSE Tail(X),
                                IF Y = <<>> THEN Y ELSE Tail(Y), t \div Base)

BigAdd(X, Y) == BigAddCarry(X, Y, 0)

RECURSIVE BigCmp(_, _)
\* -1, 0, 1 as X < Y, X = Y, X > Y
BigCmp(X, Y) ==
    IF X = <<>> /\ Y = <<>> THEN 0
    ELSE LET high == BigCmp(IF X = <<>> THEN X ELSE Tail(X),
                            IF Y = <<>> THEN Y ELSE Tail(Y))
         IN  IF high # 0 THEN high
             ELSE IF Limb(X, 1) < Limb(Y, 1) THEN -1
             ELSE IF Limb(X, 1) > Limb(Y, 1) THEN 1 ELSE 0

RECURSIVE BigSubBorrow(_, _, _)
\* X - Y - b, for X >= Y + b
BigSubBorrow(X, Y, b) ==
    IF X = <<>> THEN <<>>
    ELSE LET t == Head(X) - Limb(Y, 1) - b
         IN  <<(t + Base) % Base>>
                 \o BigSubBorrow(Tail(X), IF Y = <<>> THEN Y ELSE Tail(Y),
                                 IF t < 0 THEN 1 ELSE 0)

BigSub(X, Y) == BigSubBorrow(X, Y, 0)

(***************************************************************************)
(* Python values.  A value read from the environment, an advertisement     *)
(* field or a literal is a record: t is its type, v its number (an int, or *)
(* a float on the fixed-point grid of the place it is used), s its text,   *)
(* d its items when it is a dict.                                          *)
(***************************************************************************)
PyNone == [t |-> "None", v |-> 0, s |-> "", d |-> <<>>]
PyInt(n) == [t |-> "int", v |-> n, s |-> "", d |-> <<>>]
PyStr(x) == [t |-> "str", v |-> 0, s |-> x, d |-> <<>>]
PyDict(items) == [t |-> "dict", v |-> 0, s |-> "", d |-> items]

\* bool(x), as `if (calibration[color]):` takes it
Truthy(x) ==
    CASE x.t = "None" -> FALSE
      [] x.t = "int" -> x.v # 0
      [] x.t = "str" -> x.s # ""
      [] x.t = "dict" -> DOMAIN x.d # {}

\* The result of an expression: exc = "" and a value, or the exception raised.
Value(x) == [exc |-> "", val |-> x]
Raise(e) == [exc |-> e, val |-> PyNone]

\* float(x) for an advertisement field: an int converts, a text that is no
\* number raises ValueError, None raises TypeError.
PyFloat(x) ==
    CASE x.t = "int" -> Value(x)
      [] x.t = "str" -> Raise("ValueError")
      [] OTHER -> Raise("TypeError")

\* container[key]: a dict yields the item or raises KeyError, anything else
\* modelled here (None, an int) is not subscriptable.
GetItem(x, key) ==
    IF x.t # "dict" THEN Raise("TypeError")
    ELSE IF key \in DOMAIN x.d THEN Value(x.d[key])
    ELSE Raise("KeyError")

(***************************************************************************)
(* The device registry (lines 69-78).                                      *)
(***************************************************************************)
TILTS ==
    [u \in {"a495bb10-c5b1-4b44-b512-1370f02d74de",
            "a495bb20-c5b1-4b44-b512-1370f02d74de",
            "a495bb30-c5b1-4b44-b512-1370f02d74de",
            "a495bb40-c5b1-4b44-b512-1370f02d74de",
            "a495bb50-c5b1-4b44-b512-1370f02d74de",
            "a495bb60-c5b1-4b44-b512-1370f02d74de",
            "a495bb70-c5b1-4b44-b512-1370f02d74de",
            "a495bb80-c5b1-4b44-b512-1370f02d74de"} |->
        CASE u = "a495bb10-c5b1-4b44-b512-1370f02d74de" -> "Red"
          [] u = "a495bb20-c5b1-4b44-b512-1370f02d74de" -> "Green"
          [] u = "a495bb30-c5b1-4b44-b512-1370f02d74de" -> "Black"
          [] u = "a495bb40-c5b1-4b44-b512-1370f02d74de" -> "Purple"
          [] u = "a495bb50-c5b1-4b44-b512-1370f02d74de" -> "Orange"
          [] u = "a495bb60-c5b1-4b44-b512-1370f02d74de" -> "Blue"
          [] u = "a495bb70-c5b1-4b44-b512-1370f02d74de" -> "Yellow"
          [] u = "a495bb80-c5b1-4b44-b512-1370f02d74de" -> "Pink"]

Colors == {TILTS[u] : u \in DOMAIN TILTS}

\* The environment variable each entry of the calibration table reads
\* (lines 81-88).
CalibrationVar ==
    [c \in Colors |->
        CASE c = "Red" -> "TILT_CAL_RED"
          [] c = "Green" -> "TILT_CAL_GREEN"
          [] c = "Black" -> "TILT_CAL_BLACK"
          [] c = "Purple" -> "TILT_CAL_PURPLE"
          [] c = "Orange" -> "TILT_CAL_ORANGE"
          [] c = "Blue" -> "TILT_CAL_BLUE"
          [] c = "Yellow" -> "TILT_CAL_YELLOW"
          [] c = "Pink" -> "TILT_CAL_PINK"]

(***************************************************************************)
(* The environment.  A variable that is not set is not in the domain.      *)
(***************************************************************************)
\* os.getenv(name, default)
Getenv(environ, name, default) ==
    IF name \in DOMAIN environ THEN PyStr(environ[name]) ELSE default

\* ast.literal_eval on the texts of the modelled environments.  Offsets are
\* on the fixed-point grid: 'temp' in tenths of a degree, 'sg' in thousandths.
literal_eval(x) ==
    CASE x.s = "None" -> Value(PyNone)
      [] x.s = "{'temp': -2.0, 'sg': 0.002}" ->
            Value(PyDict([temp |-> PyInt(-20), sg |-> PyInt(2)]))
      [] x.s = "{'temp': 1.5, 'sg': -0.001}" ->
            Value(PyDict([temp |-> PyInt(15), sg |-> PyInt(-1)]))
      [] x.s = "{'temp': 0.0, 'sg': 0.0}" ->
            Value(PyDict([temp |-> PyInt(0), sg |-> PyInt(0)]))
      [] x.s = "{'temp': -2.0}" -> Value(PyDict([temp |-> PyInt(-20)]))
      [] x.s = "0" -> Value(PyInt(0))
      [] x.s = "5" -> Value(PyInt(5))
      [] x.s = "{'username': 'tilt', 'password': 'secret'}" ->
            Value(PyDict([username |-> PyStr("tilt"), password |-> PyStr("secret")]))
      [] OTHER -> Raise("ValueError")

\* int(x) as line 96 applies it: to the default 1883 or to the variable's text
PyIntOf(x) ==
    CASE x.t = "int" -> Value(x)
      [] x.t = "str" /\ x.s = "8883" -> Value(PyInt(8883))
      [] OTHER -> Raise("ValueError")

(***************************************************************************)
(* The metrics transform and the message formatter (lines 132-147).        *)
(* f10 is temperature_fahrenheit in tenths, sg is specific_gravity in      *)
(* thousandths.                                                            *)
(***************************************************************************)
\* "{:.1f}".format(temperature_fahrenheit)
FormatFahrenheit(f10) == FormatFixed(f10 < 0, Abs(f10), 1)

\* "{:.3f}".format(specific_gravity)
FormatGravity(sg) == FormatFixed(sg < 0, Abs(sg), 3)

\* A variant: the division of (temperature_fahrenheit - 32) * 5 by 9 floors.
FormatCelsiusFloorDiv(f10) ==
    LET n == ((f10 - 320) * 5) \div 90
    IN  FormatFixed(n < 0, Abs(n) * 100, 2)

\* temperature_celsius = (temperature_fahrenheit - 32) * 5/9, formatted "{:.2f}":
\* (f10/10 - 32) * 5/9 = (f10 - 320) * 5 / 90, so in hundredths (f10 - 320) * 50 / 9
FormatCelsius(f10) ==
    LET n == (f10 - 320) * 50
    IN  FormatFixed(n < 0, RoundHalfEven(Abs(n), 9), 2)

\* The coefficients of line 136, each times 1000.
PlatoCubic == 135997
PlatoSquare == 630272
PlatoLinear == 1111140
PlatoConstant == 616868

\* The terms of degree_plato = 135.997*sg^3 - 630.272*sg^2 + 1111.14*sg - 616.868
\* in units of 10^-12, for m = |sg| in thousandths.
CubicTerm(m) == BigMul(BigMul(BigMul(BigOf(PlatoCubic), m), m), m)
SquareTerm(m) == BigMul(BigMul(BigMul(BigOf(PlatoSquare), m), m), 1000)
LinearTerm(m) == BigMul(BigMul(BigMul(BigOf(PlatoLinear), m), 1000), 1000)
ConstantTerm == BigMul(BigMul(BigMul(BigOf(PlatoConstant), 1000), 1000), 1000)

\* degree_plato as the pair of the sum of its positive terms and the sum of
\* its negative terms.
PlatoTerms(sg) ==
    IF sg >= 0
    THEN [pos |-> BigAdd(CubicTerm(sg), LinearTerm(sg)),
          neg |-> BigAdd(SquareTerm(sg), ConstantTerm)]
    ELSE [pos |-> <<>>,
          neg |-> BigAdd(BigAdd(CubicTerm(0 - sg), SquareTerm(0 - sg)),
                         BigAdd(LinearTerm(0 - sg), ConstantTerm))]

PlatoNegative(terms) == BigCmp(terms.pos, terms.neg) < 0

PlatoMagnitude(terms) ==
    IF PlatoNegative(terms) THEN BigSub(terms.neg, terms.pos)
                            ELSE BigSub(terms.pos, terms.neg)

\* A magnitude q + (hi * Base + lo) / Base^2 rounded to an integer, ties to even.
RoundLimbs(q, hi, lo) ==
    IF \/ hi > Base \div 2
       \/ hi = Base \div 2 /\ lo > 0
       \/ hi = Base \div 2 /\ lo = 0 /\ q % 2 = 1
    THEN q + 1 ELSE q

\* A magnitude in units of 10^-12 rounded to hundredths, that is to a
\* multiple of 10^10 = Base^2.
Hundredths(mag) ==
    RoundLimbs(Limb(mag, 3) + Limb(mag, 4) * Base, Limb(mag, 2), Limb(mag, 1))

FormatTerms(terms) ==
    FormatFixed(PlatoNegative(terms), Hundredths(PlatoMagnitude(terms)), 2)

\* "{:.2f}".format(degree_plato)
FormatPlato(sg) == FormatTerms(PlatoTerms(sg))

\* A variant: the suffix does not follow the calibration.
SuffixAlwaysCali(calibrated) == "cali"

Suffix(calibrated) == IF calibrated THEN "cali" ELSE "uncali"

\* The dict of lines 138-144, as its items in insertion order.
Data(f10, sg, suffix, rssi) ==
    << <<"specific_gravity_" \o suffix, FormatGravity(sg)>>,
       <<"plato_" \o suffix, FormatPlato(sg)>>,
       <<"temperature_celsius_" \o suffix, FormatCelsius(f10)>>,
       <<"temperature_fahrenheit_" \o suffix, FormatFahrenheit(f10)>>,
       <<"rssi", FormatInt(rssi)>> >>

RECURSIVE JsonItems(_)
JsonItems(items) ==
    IF items = <<>> THEN ""
    ELSE "\"" \o Head(items)[1] \o "\": \"" \o Head(items)[2] \o "\""
            \o (IF Len(items) > 1 THEN ", " ELSE "") \o JsonItems(Tail(items))

\* json.dumps of a dict of strings
JsonDumps(items) == "{" \o JsonItems(items) \o "}"

Qos == 2
Retain == 1
Protocol == 4

\* A variant: the topic does not carry the colour.
TopicUnlabelled(color) == "tilt/" \o "unknown"

Topic(color) == "tilt/" \o color

\* The tuple appended to msgs at line 147.
Message(color, data) ==
    [topic |-> Topic(color), payload |-> JsonDumps(data), qos |-> Qos, retain |-> Retain]

(***************************************************************************)
(* State.                                                                  *)
(*   pc          where the main thread is: "boot" (the module-level code   *)
(*               up to line 99 has not run), "crashed" (it raised), "loop" *)
(*               (line 196, before the first scan), "scanning" (inside the *)
(*               time.sleep of line 166), "idle" (inside that of line 206) *)
(*   environ     os.environ                                                *)
(*   calibration the table of lines 80-89; config the dict of lines 94-99  *)
(*   started     the number of scanners started and not stopped            *)
(*   filter      the uuids of the device_filter of the last scanner made   *)
(*   sleepFor    the seconds of the time.sleep the main thread is in       *)
(*   last        the last call of callback(): its arguments, the number of *)
(*               LOG.error calls it made, the exception that left it (""   *)
(*               when it returned), its msgs list, and the arguments of    *)
(*               its publish.multiple calls                                *)
(*   heard       callback() has been called; handed: publish.multiple has  *)
(*   probe       an advertisement chosen at the start, and probed, what    *)
(*               became of it (see Follow)                                 *)
(***************************************************************************)
VARIABLES pc, environ, calibration, config, started, filter, sleepFor, last,
          heard, handed, probe, probed

vars == <<pc, environ, calibration, config, started, filter, sleepFor, last,
          heard, handed, probe, probed>>

(***************************************************************************)
(* Inputs.                                                                 *)
(***************************************************************************)
\* The sample advertisement of line 202.
SampleUuid == "a495bb60-c5b1-4b44-b512-1370f02d74de"
SampleRssi == -95
SampleMajor == 73
SampleMinor == 989

\* An identity that is no key of TILTS.
StrangerUuid == "e2c56db5-dffb-48d2-b060-d0f5a71096e0"

UuidFields == {PyStr(u) : u \in DOMAIN TILTS \cup {StrangerUuid}}
MajorFields == {PyInt(SampleMajor), PyStr("n/a")}
MinorFields == {PyInt(SampleMinor), PyStr("n/a")}

\* additional_info: a dict with the three keys, or one that lacks one of them
\* and has the sample's numbers under the others.
AdditionalInfos ==
    {[uuid |-> u, major |-> a, minor |-> i] :
        u \in UuidFields, a \in MajorFields, i \in MinorFields}
    \cup {[major |-> PyInt(SampleMajor), minor |-> PyInt(SampleMinor)]}
    \cup {[uuid |-> u, minor |-> PyInt(SampleMinor)] : u \in UuidFields}
    \cup {[uuid |-> u, major |-> PyInt(SampleMajor)] : u \in UuidFields}

\* The calibration pairs tried, and how many of them the environments draw on.
CalibrationPairs ==
    <<"{'temp': -2.0, 'sg': 0.002}", "{'temp': 1.5, 'sg': -0.001}",
      "{'temp': 0.0, 'sg': 0.0}">>

MaxPairs == 1

\* The texts a calibration variable is set to: pairs, a dict with one offset
\* only, two numbers, and a text that is no Python literal.
CalibrationTexts ==
    {CalibrationPairs[k] : k \in {j \in 1..Len(CalibrationPairs) : j <= MaxPairs}}
    \cup {"{'temp': -2.0}", "0", "5", "offsets"}

SettingTexts ==
    [n \in {"MQTT_IP", "MQTT_PORT", "MQTT_AUTH"} |->
        CASE n = "MQTT_IP" -> {"broker.local"}
          [] n = "MQTT_PORT" -> {"8883", "mqtt"}
          [] n = "MQTT_AUTH" -> {"{'username': 'tilt', 'password': 'secret'}", "tilt:secret"}]

\* A deployment with every device calibrated and the broker configured.
Deployed ==
    [n \in {CalibrationVar[c] : c \in Colors} \cup DOMAIN SettingTexts |->
        CASE n = "MQTT_IP" -> "broker.local"
          [] n = "MQTT_PORT" -> "8883"
          [] n = "MQTT_AUTH" -> "{'username': 'tilt', 'password': 'secret'}"
          [] OTHER -> "{'temp': -2.0, 'sg': 0.002}"]

\* The environments: nothing set, one variable set, or the deployment.
Environments ==
    {[n \in {} |-> ""], Deployed}
    \cup {[n \in {CalibrationVar[c]} |-> x] : c \in Colors, x \in CalibrationTexts}
    \cup UNION {{[n \in {m} |-> x] : x \in SettingTexts[m]} : m \in DOMAIN SettingTexts}

(***************************************************************************)
(* Start-up: lines 80-99.                                                  *)
(***************************************************************************)
\* A variant: the variables read with an empty default.
CalibrationDefaultEmpty == PyStr("")

CalibrationDefault == PyStr("None")

\* One entry of the calibration dict display.
CalibrationEntry(c) ==
    literal_eval(Getenv(environ, CalibrationVar[c], CalibrationDefault))

DefaultPort == 1883

ConfigHost == Value(Getenv(environ, "MQTT_IP", PyStr("127.0.0.1")))
ConfigPort == PyIntOf(Getenv(environ, "MQTT_PORT", PyInt(DefaultPort)))
ConfigAuth == literal_eval(Getenv(environ, "MQTT_AUTH", PyStr("None")))

\* The module-level code raises when one of its expressions does.
StartupRaises ==
    \/ \E c \in Colors : CalibrationEntry(c).exc # ""
    \/ ConfigPort.exc # ""
    \/ ConfigAuth.exc # ""

Startup ==
    /\ pc = "boot"
    /\ IF StartupRaises
       THEN /\ pc' = "crashed"
            /\ UNCHANGED <<calibration, config>>
       ELSE /\ pc' = "loop"
            /\ calibration' = [c \in Colors |-> CalibrationEntry(c).val]
            /\ config' = [host |-> ConfigHost.val, port |-> ConfigPort.val,
                          auth |-> ConfigAuth.val]
    /\ UNCHANGED <<environ, started, filter, sleepFor, last, heard, handed,
                   probe, probed>>

(***************************************************************************)
(* callback(bt_addr, rssi, packet, additional_info): lines 103-152.        *)
(* bt_addr and packet are only printed.                                    *)
(***************************************************************************)
\* Lines 112-117: the colour of the advertisement's uuid, or the KeyError of
\* additional_info["uuid"] or of TILTS[uuid].
LookupColor(info) ==
    LET uuid == GetItem(PyDict(info), "uuid")
    IN  IF uuid.exc # "" THEN uuid
        ELSE IF uuid.val.t = "str" /\ uuid.val.s \in DOMAIN TILTS
             THEN Value(PyStr(TILTS[uuid.val.s]))
             ELSE Raise("KeyError")

\* `x += calibration[color][key]` adds a number; a text cannot be added.
Offset(entry, key) ==
    LET item == GetItem(entry, key)
    IN  IF item.exc = "" /\ item.val.t # "int" THEN Raise("TypeError") ELSE item

\* Lines 121-130: the reading, calibrated when the table has a true value for
\* the colour, or the first exception raised on the way.
Reading(info, color) ==
    LET major == GetItem(PyDict(info), "major")
        temperature == IF major.exc # "" THEN major ELSE PyFloat(major.val)
        minor == IF temperature.exc # "" THEN temperature
                 ELSE GetItem(PyDict(info), "minor")
        gravity == IF minor.exc # "" THEN minor ELSE PyFloat(minor.val)
        entry == IF gravity.exc # "" THEN gravity
                 ELSE IF color \in DOMAIN calibration THEN Value(calibration[color])
                 ELSE Raise("KeyError")
        calibrated == entry.exc = "" /\ Truthy(entry.val)
        temp == IF calibrated THEN Offset(entry.val, "temp") ELSE entry
        sg == IF calibrated /\ temp.exc = "" THEN Offset(entry.val, "sg") ELSE temp
    IN  IF sg.exc # "" THEN [exc |-> sg.exc, f10 |-> 0, sg |-> 0, calibrated |-> FALSE]
        ELSE [exc |-> "",
              f10 |-> temperature.val.v * 10 + (IF calibrated THEN temp.val.v ELSE 0),
              sg |-> gravity.val.v + (IF calibrated THEN sg.val.v ELSE 0),
              calibrated |-> calibrated]

\* A variant: a bare `except:`.
CatchesAny(exc) == TRUE

\* `except KeyError:` (lines 116 and 151)
Catches(exc) == exc = "KeyError"

\* A variant: msgs is a module-level list that is never emptied.
MsgsKept == last.msgs

\* Line 107: msgs = []
MsgsAtEntry == <<>>

\* One call of publish.multiple (line 150).
PublishCall(msgs) ==
    [msgs |-> msgs, hostname |-> config.host, port |-> config.port,
     auth |-> config.auth, protocol |-> Protocol]

\* What one call of callback() does; up is whether the broker takes the publish
\* (paho raises an OSError or an MQTTException when it does not).
CallbackRun(rssi, info, up) ==
    LET lookup == LookupColor(info)
        color == IF lookup.exc = "" THEN lookup.val.s ELSE "unknown"
        errors == IF lookup.exc # "" /\ Catches(lookup.exc) THEN 1 ELSE 0
        reading == Reading(info, color)
        data == Data(reading.f10, reading.sg, Suffix(reading.calibrated), rssi)
        msgs == Append(MsgsAtEntry, Message(color, data))
        raised == IF reading.exc # "" THEN reading.exc
                  ELSE IF up THEN "" ELSE "OSError"
    IN  IF lookup.exc # "" /\ ~Catches(lookup.exc)
        THEN [rssi |-> rssi, info |-> info, color |-> color, errors |-> 0,
              exc |-> lookup.exc, msgs |-> MsgsAtEntry, calls |-> <<>>,
              refused |-> FALSE]
        ELSE [rssi |-> rssi, info |-> info, color |-> color,
              errors |-> IF Catches(raised) THEN errors + 1 ELSE errors,
              exc |-> IF Catches(raised) THEN "" ELSE raised,
              msgs |-> IF reading.exc # "" THEN MsgsAtEntry ELSE msgs,
              calls |-> IF reading.exc # "" THEN <<>> ELSE <<PublishCall(msgs)>>,
              refused |-> reading.exc = "" /\ ~up]

NoCall ==
    [rssi |-> 0, info |-> <<>>, color |-> "", errors |-> 0, exc |-> "none",
     msgs |-> <<>>, calls |-> <<>>, refused |-> FALSE]

Rssis == {SampleRssi}

\* The history of the probe: the publish.multiple calls of the first call of
\* callback() with it, whether another advertisement was handled since, and
\* whether the probe came again after that.
Follow(rssi, info, calls) ==
    LET same == DOMAIN info = DOMAIN probe.info
                    /\ [rssi |-> rssi, info |-> info] = probe
    IN  IF probed.first = <<>>
        THEN [probed EXCEPT !.first = IF same THEN calls ELSE <<>>]
        ELSE IF same THEN [probed EXCEPT !.again = probed.between]
        ELSE [probed EXCEPT !.between = TRUE]

\* The scanner's thread calls callback() while a scanner is started.
Callback(rssi, info, up) ==
    /\ pc = "scanning"
    /\ started > 0
    /\ last' = CallbackRun(rssi, info, up)
    /\ heard' = TRUE
    /\ handed' = (handed \/ last'.calls # <<>>)
    /\ probed' = Follow(rssi, info, last'.calls)
    /\ UNCHANGED <<pc, environ, calibration, config, started, filter, sleepFor, probe>>

(***************************************************************************)
(* scan() and the main loop: lines 156-170 and 196-206.                    *)
(***************************************************************************)
scantime == 25
\* A variant: the loop sleeps for the scan time between scans.
SleepForScanTime == scantime

sleep_interval == 60 * 10

\* scanner.start()
StartScanner(n) == n + 1

\* A variant: the scanner is left running.
StopScannerSkipped(n) == n

\* scanner.stop()
StopScanner(n) == n - 1

\* Lines 157-166: a scanner for the keys of TILTS is made and started, and the
\* main thread sleeps for the scan time.
ScanStart ==
    /\ pc \in {"loop", "idle"}
    /\ filter' = DOMAIN TILTS
    /\ started' = StartScanner(started)
    /\ sleepFor' = scantime
    /\ pc' = "scanning"
    /\ UNCHANGED <<environ, calibration, config, last, heard, handed, probe, probed>>

\* Lines 169-170 and 206: the scanner is stopped and the main thread sleeps
\* until the next scan.
ScanStop ==
    /\ pc = "scanning"
    /\ started' = StopScanner(started)
    /\ sleepFor' = sleep_interval
    /\ pc' = "idle"
    /\ UNCHANGED <<environ, calibration, config, filter, last, heard, handed,
                   probe, probed>>

NoProbe == [rssi |-> 0, info |-> <<>>]

\* The advertisement a probe follows: the sample of line 202.
Probes ==
    {[rssi |-> SampleRssi,
      info |-> [uuid |-> PyStr(SampleUuid), major |-> PyInt(SampleMajor),
                minor |-> PyInt(SampleMinor)]]}

InitWith(probes, environments) ==
    /\ pc = "boot"
    /\ environ \in environments
    /\ calibration = <<>>
    /\ config = <<>>
    /\ started = 0
    /\ filter = {}
    /\ sleepFor = 0
    /\ last = NoCall
    /\ heard = FALSE
    /\ handed = FALSE
    /\ probe \in probes
    /\ probed = [first |-> <<>>, between |-> FALSE, again |-> FALSE]

Init == InitWith({NoProbe}, Environments)

Next ==
    \/ Startup
    \/ ScanStart
    \/ ScanStop
    \/ \E rssi \in Rssis, info \in AdditionalInfos, up \in BOOLEAN :
          Callback(rssi, info, up)

Spec == Init /\ [][Next]_vars

\* The environments that set no calibration variable but that of the device
\* of the sample, or all of them.
SampleEnvironments ==
    {e \in Environments :
        \/ e = Deployed
        \/ \A c \in Colors :
              CalibrationVar[c] \in DOMAIN e => c = TILTS[SampleUuid]}

\* The same program with a probe chosen.
SpecProbe == InitWith(Probes, SampleEnvironments) /\ [][Next]_vars

\* time.sleep returns: the scan window and the idle window both expire.
FairSpec == Spec /\ WF_vars(ScanStart) /\ WF_vars(ScanStop)

(***************************************************************************)
(* Properties.  Each speaks of the last call of callback() and of the      *)
(* loop's state.                                                           *)
(***************************************************************************)
Called == last.exc # "none"

HasField(k) == Called /\ k \in DOMAIN last.info

\* The advertisement's identity is a key of the registry.
Registered == HasField("uuid") /\ last.info.uuid.s \in DOMAIN TILTS

\* major and minor are both there and numbers.
NumericFields ==
    /\ HasField("major") /\ last.info.major.t = "int"
    /\ HasField("minor") /\ last.info.minor.t = "int"

Label == TILTS[last.info.uuid.s]

EightLabels ==
    {"Red", "Green", "Black", "Purple", "Orange", "Blue", "Yellow", "Pink"}

EightUuids ==
    {"a495bb10-c5b1-4b44-b512-1370f02d74de", "a495bb20-c5b1-4b44-b512-1370f02d74de",
     "a495bb30-c5b1-4b44-b512-1370f02d74de", "a495bb40-c5b1-4b44-b512-1370f02d74de",
     "a495bb50-c5b1-4b44-b512-1370f02d74de", "a495bb60-c5b1-4b44-b512-1370f02d74de",
     "a495bb70-c5b1-4b44-b512-1370f02d74de", "a495bb80-c5b1-4b44-b512-1370f02d74de"}

Running == pc \in {"loop", "scanning", "idle"}

\* The body a payload must have for the given values and suffix: five keys,
\* the four measurements under the one suffix and rssi without.
ExpectedBody(f10, sg, suffix, rssi) ==
    "{\"specific_gravity_" \o suffix \o "\": \"" \o FormatGravity(sg)
        \o "\", \"plato_" \o suffix \o "\": \"" \o FormatPlato(sg)
        \o "\", \"temperature_celsius_" \o suffix \o "\": \"" \o FormatCelsius(f10)
        \o "\", \"temperature_fahrenheit_" \o suffix \o "\": \"" \o FormatFahrenheit(f10)
        \o "\", \"rssi\": \"" \o FormatInt(rssi) \o "\"}"

\* C1: an advertisement whose identity is not in the registry (or that has no
\* uuid) publishes nothing and logs exactly one error.
C1_UnknownIdentityOneError ==
    Called /\ ~Registered => last.calls = <<>> /\ last.errors = 1

\* C2: an advertisement of a registered identity whose major or minor is
\* missing or not a number logs an error, publishes nothing, and callback()
\* returns normally.
C2_MalformedLoggedAndDropped ==
    Registered /\ ~NumericFields =>
        last.errors >= 1 /\ last.calls = <<>> /\ last.exc = ""

\* The texts of the modelled environments that are not what their variable
\* is read as: no Python literal (calibration, MQTT_AUTH), no integer (MQTT_PORT).
Unparseable == {"offsets", "tilt:secret", "mqtt"}

\* The texts that are a pair of offsets.
PairTexts == {CalibrationPairs[k] : k \in 1..Len(CalibrationPairs)}

Unset(c) == CalibrationVar[c] \notin DOMAIN environ

\* C3, as stated: a calibration value that is absent or malformed leaves the
\* device not calibrated, and start-up always completes.
C3_MalformedIsNotCalibrated ==
    /\ pc # "crashed"
    /\ Running =>
          \A c \in Colors :
              (Unset(c) \/ environ[CalibrationVar[c]] \notin PairTexts)
                  => ~Truthy(calibration[c])

\* C3, amended: an absent calibration value, or one that evaluates to a false
\* literal, leaves the device not calibrated (its payloads are _uncali); a
\* value that cannot be evaluated aborts start-up: the script has crashed
\* exactly when start-up ran with such a value, and the loop is entered
\* exactly when it ran without.
C3_AbsentIsNotCalibrated ==
    /\ pc = "crashed" => \E n \in DOMAIN environ : environ[n] \in Unparseable
    /\ Running =>
          /\ \A n \in DOMAIN environ : environ[n] \notin Unparseable
          /\ \A c \in Colors :
                (Unset(c) \/ environ[CalibrationVar[c]] = "0")
                    => ~Truthy(calibration[c])
    /\ (Registered /\ NumericFields
            /\ (Unset(Label) \/ environ[CalibrationVar[Label]] = "0")) =>
          /\ Len(last.calls) = 1
          /\ last.calls[1].msgs[1].payload =
                ExpectedBody(last.info.major.v * 10, last.info.minor.v,
                             "uncali", last.rssi)

\* C3's case: start-up ran with a calibration value that is no literal.
C3_Witness ==
    /\ pc = "crashed"
    /\ \E c \in Colors : ~Unset(c) /\ environ[CalibrationVar[c]] = "offsets"

\* The calibration entry is one the callback can use: false, or a dict with
\* both offsets.
Usable(entry) ==
    ~Truthy(entry) \/ (entry.t = "dict" /\ {"temp", "sg"} \subseteq DOMAIN entry.d)

\* C4: whatever is published for a registered identity with numeric major and
\* minor carries major plus the temperature offset and minor/1000 plus the
\* gravity offset under _cali keys when the device has a calibration entry,
\* and major and minor/1000 unchanged under _uncali keys when it has none; the
\* body has the five keys, under one suffix.
C4_CalibrationAndSuffix ==
    (Registered /\ NumericFields /\ last.calls # <<>>) =>
        LET entry == calibration[Label]
            body == last.calls[1].msgs[1].payload
        IN  IF Truthy(entry)
            THEN body = ExpectedBody(last.info.major.v * 10 + entry.d.temp.v,
                                     last.info.minor.v + entry.d.sg.v,
                                     "cali", last.rssi)
            ELSE body = ExpectedBody(last.info.major.v * 10, last.info.minor.v,
                                     "uncali", last.rssi)

\* C4's case: a calibrated device's advertisement has been published.
C4_Witness ==
    /\ Registered /\ NumericFields /\ last.calls # <<>>
    /\ Truthy(calibration[Label])
    /\ calibration[Label].d.temp.v # 0

\* What C5 says of every call that publishes: one publish call, one message,
\* on the topic of the advertisement's label, qos 2, retained, and nothing of
\* an earlier event in the list.
OneLabelledMessage ==
    /\ Len(last.calls) = 1
    /\ Len(last.calls[1].msgs) = 1
    /\ last.msgs = last.calls[1].msgs
    /\ Registered
    /\ Label \in EightLabels
    /\ last.calls[1].msgs[1].topic = "tilt/" \o Label
    /\ last.calls[1].msgs[1].qos = 2
    /\ last.calls[1].msgs[1].retain = 1

\* C5, as stated: every advertisement of a registered identity with numeric
\* major and minor causes exactly one publish call with exactly one message,
\* and every message published is on tilt/<label>, qos 2, retained.
C5_EveryDecodablePublishedOnce ==
    /\ (Registered /\ NumericFields) => OneLabelledMessage
    /\ last.calls # <<>> => OneLabelledMessage

\* C5, amended: the same, for the devices whose calibration entry the
\* callback can use (a false value, or a dict with 'temp' and 'sg').
C5_UsableCalibrationPublishedOnce ==
    /\ (Registered /\ NumericFields /\ Usable(calibration[Label]))
            => OneLabelledMessage
    /\ last.calls # <<>> => OneLabelledMessage
    /\ last.calls = <<>> => last.msgs = <<>>

\* C5's case: an advertisement has been published.
C5_Witness ==
    Registered /\ NumericFields /\ Usable(calibration[Label]) /\ Len(last.calls) = 1

\* C6: the loop alternates between SCANNING (a sleep of 25 seconds with a
\* scanner started) and IDLE (a sleep of 600 seconds): the only step out of
\* one is into the other, the loop once entered is never left, and whatever
\* the advertisements did, each window is always followed by the other.
C6_PollLoopAlternates ==
    /\ [][/\ (pc = "scanning" /\ pc' # pc) => (pc' = "idle" /\ sleepFor' = 600)
          /\ (pc = "idle" /\ pc' # pc) => (pc' = "scanning" /\ sleepFor' = 25)
          /\ (pc = "loop" /\ pc' # pc) => (pc' = "scanning" /\ sleepFor' = 25)
          /\ Running => Running']_vars
    /\ [](pc = "scanning" => sleepFor = 25)
    /\ [](pc = "idle" => sleepFor = 600)
    /\ (pc = "scanning" ~> pc = "idle")
    /\ (pc = "idle" ~> pc = "scanning")

\* C6's case: the loop has gone on to IDLE after a callback that raised.
C6_Witness == pc = "idle" /\ Called /\ last.exc \notin {"", "none"}

\* The last call of callback() was for the probe.
ProbeCalled ==
    /\ Called
    /\ DOMAIN last.info = DOMAIN probe.info
    /\ last.info = probe.info
    /\ last.rssi = probe.rssi

\* C7: a later call of callback() with an advertisement hands publish.multiple
\* what the first call with it did, and no call changes the calibration table,
\* the broker settings or the environment.
C7_SameAdvertisementSamePublish ==
    /\ []((probed.first # <<>> /\ ProbeCalled) => last.calls = probed.first)
    /\ [][pc # "boot" =>
            calibration' = calibration /\ config' = config /\ environ' = environ]_vars

\* C7's case: the probe was published, another advertisement was handled, and
\* the probe has just come again.
C7_Witness == probed.first # <<>> /\ probed.again /\ ProbeCalled

\* The sample input on a registered device with no calibration.
SampleUncalibrated ==
    /\ Registered /\ NumericFields
    /\ last.info.major.v = 73 /\ last.info.minor.v = 989
    /\ calibration[Label].t = "None"

\* C8, as stated: the sample yields fahrenheit 73.0, gravity 0.989, celsius
\* 22.78 and plato -2.53 under _uncali keys on tilt/<label>.
C8_SampleYieldsPlatoMinus253 ==
    SampleUncalibrated =>
        /\ Len(last.calls) = 1
        /\ last.calls[1].msgs[1].topic = "tilt/" \o Label
        /\ last.calls[1].msgs[1].payload =
              "{\"specific_gravity_uncali\": \"0.989\", \"plato_uncali\": \"-2.53\", "
                \o "\"temperature_celsius_uncali\": \"22.78\", "
                \o "\"temperature_fahrenheit_uncali\": \"73.0\", \"rssi\": \""
                \o FormatInt(last.rssi) \o "\"}"

\* C8, amended: the cubic at 0.989 is -2.8745..., so the plato published for
\* the sample is -2.87; the other values are as stated.
C8_SampleYieldsPlatoMinus287 ==
    SampleUncalibrated =>
        /\ Len(last.calls) = 1
        /\ last.calls[1].msgs[1].topic = "tilt/" \o Label
        /\ last.calls[1].msgs[1].payload =
              "{\"specific_gravity_uncali\": \"0.989\", \"plato_uncali\": \"-2.87\", "
                \o "\"temperature_celsius_uncali\": \"22.78\", "
                \o "\"temperature_fahrenheit_uncali\": \"73.0\", \"rssi\": \""
                \o FormatInt(last.rssi) \o "\"}"

\* C8's case: the sample has been handled for an uncalibrated device.
C8_Witness == SampleUncalibrated /\ last.calls # <<>>

\* C9: when the broker does not take the publish, callback() has made that one
\* publish call and no other, has logged no error, and the exception leaves
\* it; the steps of the loop publish nothing, so nothing is sent again later.
C9_PublishFailurePropagates ==
    /\ [](last.refused =>
            last.exc = "OSError" /\ Len(last.calls) = 1 /\ last.errors = 0)
    /\ [][pc' # pc => last' = last]_vars

\* C9's case: a publish has failed.
C9_Witness == last.refused

\* C10: at most one scanner is started at any time; it is started for exactly
\* the eight identities of the registry while the loop is SCANNING and stopped
\* whenever it is not; nothing is published unless callback() was called, so
\* with no advertisement there is no payload; and the loop can always go on.
C10_OneScanWindow ==
    /\ started \in {0, 1}
    /\ pc = "scanning" => started = 1 /\ filter = EightUuids
    /\ pc # "scanning" => started = 0
    /\ handed => heard
    /\ ~heard => last.exc = "none" /\ last.calls = <<>>
    /\ Running => ENABLED (ScanStart \/ ScanStop)

\* C10's case: a scan window has closed without any advertisement.
C10_Witness == pc = "idle" /\ ~heard /\ ~handed /\ started = 0

====
